---- MODULE Spec2Model ----
(***************************************************************************)
(* A model of manimlib/mobject/svg/mtex_mobject.py: the span parser        *)
(* (_TexParser), the label/colour codec, the glyph reconciliation of MTex  *)
(* (grouping, script reordering), the span queries and the process-wide    *)
(* cache TEX_HASH_TO_MOB_MAP.                                              *)
(*                                                                         *)
(* A tex string is a sequence of one-character strings.  Positions and     *)
(* spans are Python's: 0-based, half-open <<start, end>>.                  *)
(***************************************************************************)
EXTENDS Integers, Sequences, FiniteSets, TLC

\* ------------------------------------------------------------------ bounds
\* Longest source drawn from the full alphabet.
MaxLen == 3
\* Longest source drawn from the brace alphabet ({ } \).
MaxBraceLen == 5
\* Longest source drawn from the script alphabet (a _ ^).
MaxScriptLen == 5
\* Most substrings a construction asks to isolate.
MaxRequests == 1
\* Longest source of the runs that query the constructed MTex.
MaxQueryLen == 4
\* Most scripts of a source of the runs that group the glyphs.
MaxScripts == 2
\* Most glyphs the Renderer gives in those runs.
MaxGlyphs == 3
\* Most scripts of a source, most MTex objects and most scalings of the
\* groups of one of them, in the runs that construct one MTex after another.
MaxCacheScripts == 1
MaxMobjects == 2
MaxScalings == 3

\* --------------------------------------------------------------- characters
LBrace == "{"
RBrace == "}"
Backslash == "\\"
Whitespace == {" "}
ScriptChars == {"_", "^"}
Letters == {"a", "b", "x"}
\* Python's \w: letters, digits and the underscore.
WordChars == Letters \cup {"_"}

Alphabet == {LBrace, RBrace, Backslash, "_", "^", "a", " "}
BraceAlphabet == {LBrace, RBrace, Backslash}
ScriptAlphabet == {"a", "_", "^"}
\* The values of a colour channel the codec's runs draw labels from.
ChannelSamples == {0, 1, 17, 255}

\* ------------------------------------------------------------ Python helpers
Min(a, b) == IF a < b THEN a ELSE b
Max(a, b) == IF a < b THEN b ELSE a

\* s[b:e] for 0 <= b, 0 <= e.
Slice(s, b, e) == SubSeq(s, b + 1, Min(e, Len(s)))

\* The character at 0-based position i.
At(s, i) == s[i + 1]

Range(s) == {s[i] : i \in DOMAIN s}

\* Python's order on tuples of integers of one length.
RECURSIVE TupleLess(_, _)
TupleLess(k1, k2) ==
    IF k1 = <<>> THEN FALSE
    ELSE IF Head(k1) # Head(k2) THEN Head(k1) < Head(k2)
    ELSE TupleLess(Tail(k1), Tail(k2))

\* sorted(seq, key=...) on entries [key, val]: Python's sort is stable, so an
\* entry goes after the entries whose key is not greater.
RECURSIVE InsertSorted(_, _)
InsertSorted(x, sorted) ==
    IF sorted = <<>> THEN <<x>>
    ELSE IF TupleLess(x.key, Head(sorted).key) THEN <<x>> \o sorted
    ELSE <<Head(sorted)>> \o InsertSorted(x, Tail(sorted))

RECURSIVE SortFrom(_, _)
SortFrom(seq, acc) ==
    IF seq = <<>> THEN acc
    ELSE SortFrom(Tail(seq), InsertSorted(Head(seq), acc))

Sorted(keyed) == LET s == SortFrom(keyed, <<>>) IN [k \in DOMAIN s |-> s[k].val]

\* manimlib.utils.iterables.adjacent_pairs pairs each element with its
\* successor and the last with the first; [:-1] drops that last pair.
_get_neighbouring_pairs(seq) ==
    [k \in 1 .. (Len(seq) - 1) |-> <<seq[k], seq[k + 1]>>]

\* A slip: the arguments the other way round.
_contains_swapped(span_0, span_1) == span_1[1] <= span_0[1] /\ span_0[2] <= span_1[2]

\* _contains(span_0, span_1)
_contains(span_0, span_1) == span_0[1] <= span_1[1] /\ span_1[2] <= span_0[2]

\* ------------------------------------------------------------ the registry
\* tex_spans_dict is a Python dict, which keeps insertion order: a sequence
\* of entries [span, script_type, label, containing_labels].
Keys(dict) == {dict[i].span : i \in DOMAIN dict}

Entry(dict, span_tuple) == dict[CHOOSE i \in DOMAIN dict : dict[i].span = span_tuple]

\* _TexSpan(script_type, label)
_TexSpan(span_tuple, script_type, label) ==
    [span |-> span_tuple, script_type |-> script_type, label |-> label,
     containing_labels |-> <<>>]

\* A slip: no early return for a range that is already a key.
add_tex_span_again(reg, span_tuple, script_type, label) ==
    IF script_type = 0
    THEN [dict |-> Append(reg.dict, _TexSpan(span_tuple, 0, reg.current_label)),
          current_label |-> reg.current_label + 1]
    ELSE [dict |-> Append(reg.dict, _TexSpan(span_tuple, script_type, label)),
          current_label |-> reg.current_label]

\* add_tex_span on the pair (tex_spans_dict, current_label).
add_tex_span(reg, span_tuple, script_type, label) ==
    IF span_tuple \in Keys(reg.dict) THEN reg
    ELSE IF script_type = 0
         THEN [dict |-> Append(reg.dict, _TexSpan(span_tuple, 0, reg.current_label)),
               current_label |-> reg.current_label + 1]
         ELSE [dict |-> Append(reg.dict, _TexSpan(span_tuple, script_type, label)),
               current_label |-> reg.current_label]

\* ------------------------------------------------------- get_brace_index_pairs
\* The number of backslashes right before position p: the length of group 1
\* of the match of (\\*)(\{|\}) whose brace is at p.
RECURSIVE BackslashesBefore(_, _)
BackslashesBefore(tex, p) ==
    IF p > 0 /\ At(tex, p - 1) = Backslash THEN 1 + BackslashesBefore(tex, p - 1) ELSE 0

\* The loop over the matches, left to right, from position i.  error is
\* "IndexError" when pop() meets an empty list.
RECURSIVE BraceScan(_, _, _, _)
BraceScan(tex, i, left_brace_indices, result) ==
    IF i >= Len(tex)
    THEN [result |-> result, left |-> left_brace_indices, error |-> "none"]
    ELSE IF At(tex, i) \notin {LBrace, RBrace} \/ BackslashesBefore(tex, i) % 2 = 1
    THEN BraceScan(tex, i + 1, left_brace_indices, result)
    ELSE IF At(tex, i) = LBrace
    THEN BraceScan(tex, i + 1, Append(left_brace_indices, i), result)
    ELSE IF left_brace_indices = <<>>
    THEN [result |-> result, left |-> left_brace_indices, error |-> "IndexError"]
    ELSE BraceScan(tex, i + 1,
                   SubSeq(left_brace_indices, 1, Len(left_brace_indices) - 1),
                   Append(result, <<left_brace_indices[Len(left_brace_indices)], i + 1>>))

\* [pairs, error]: error is "none", "IndexError" (list.pop on an empty list)
\* or "unmatched braces" (raise_tex_parsing_error).
get_brace_index_pairs(tex) ==
    LET scan == BraceScan(tex, 0, <<>>, <<>>) IN
    IF scan.error # "none" THEN [pairs |-> <<>>, error |-> scan.error]
    ELSE IF scan.left # <<>> THEN [pairs |-> <<>>, error |-> "unmatched braces"]
    ELSE [pairs |-> scan.result, error |-> "none"]

\* --------------------------------------------------- break_up_by_double_braces
\* The spans the loop hands to add_tex_span and add_specified_substring.
RECURSIVE DoubleBraceSpans(_, _, _)
DoubleBraceSpans(pairs, k, skip_pair) ==
    IF k > Len(pairs) THEN <<>>
    ELSE IF skip_pair THEN DoubleBraceSpans(pairs, k + 1, FALSE)
    ELSE LET prev_span_tuple == pairs[k][1]
             span_tuple == pairs[k][2]
         IN IF /\ span_tuple[1] = prev_span_tuple[1] - 1
               /\ span_tuple[2] = prev_span_tuple[2] + 1
            THEN <<span_tuple>> \o DoubleBraceSpans(pairs, k + 1, TRUE)
            ELSE DoubleBraceSpans(pairs, k + 1, FALSE)

RECURSIVE AddNormalSpans(_, _)
AddNormalSpans(reg, spans) ==
    IF spans = <<>> THEN reg
    ELSE AddNormalSpans(add_tex_span(reg, Head(spans), 0, -1), Tail(spans))

\* add_specified_substring for each span of the list.
SubstringsOf(tex, spans) == [k \in DOMAIN spans |-> Slice(tex, spans[k][1], spans[k][2])]

break_up_by_double_braces(tex, brace_index_pairs, reg, specified) ==
    LET spans == DoubleBraceSpans(_get_neighbouring_pairs(brace_index_pairs), 1, FALSE) IN
    [reg |-> AddNormalSpans(reg, spans), specified |-> specified \o SubstringsOf(tex, spans)]

\* --------------------------------------------------------- break_up_by_scripts
\* The end of the run of whitespace that starts at position i (\s*).
RECURSIVE SkipWhitespace(_, _)
SkipWhitespace(tex, i) ==
    IF i < Len(tex) /\ At(tex, i) \in Whitespace THEN SkipWhitespace(tex, i + 1) ELSE i

\* re.finditer(r"((?<!\\)(_|\^)\s*)|(\s+(_|\^)\s*)", tex_string) from position
\* i: the matches [begin, end, script_type], leftmost first, the first
\* alternative tried first; the scan goes on at the end of a match.
RECURSIVE ScriptMatches(_, _)
ScriptMatches(tex, i) ==
    IF i >= Len(tex) THEN <<>>
    ELSE IF At(tex, i) \in ScriptChars /\ (i = 0 \/ At(tex, i - 1) # Backslash)
    THEN LET token_end == SkipWhitespace(tex, i + 1) IN
         <<[begin |-> i, end |-> token_end,
            script_type |-> IF At(tex, i) = "_" THEN 1 ELSE 2]>>
         \o ScriptMatches(tex, token_end)
    ELSE IF At(tex, i) \in Whitespace
    THEN LET j == SkipWhitespace(tex, i) IN
         IF j < Len(tex) /\ At(tex, j) \in ScriptChars
         THEN LET token_end == SkipWhitespace(tex, j + 1) IN
              <<[begin |-> i, end |-> token_end,
                 script_type |-> IF At(tex, j) = "_" THEN 1 ELSE 2]>>
              \o ScriptMatches(tex, token_end)
         ELSE ScriptMatches(tex, i + 1)
    ELSE ScriptMatches(tex, i + 1)

RECURSIVE LettersEnd(_, _)
LettersEnd(tex, i) ==
    IF i < Len(tex) /\ At(tex, i) \in Letters THEN LettersEnd(tex, i + 1) ELSE i

\* re.match(r"\w|\\[a-zA-Z]+", tex_string[token_end:]).span() shifted by
\* token_end; <<>> when there is no match.
ContentMatch(tex, token_end) ==
    IF token_end < Len(tex) /\ At(tex, token_end) \in WordChars
    THEN <<token_end, token_end + 1>>
    ELSE IF /\ token_end + 1 < Len(tex)
            /\ At(tex, token_end) = Backslash
            /\ At(tex, token_end + 1) \in Letters
    THEN <<token_end, LettersEnd(tex, token_end + 1)>>
    ELSE <<>>

\* dict(self.brace_index_pairs)[token_end], or -1 when token_end is no key.
BraceEndAt(brace_index_pairs, token_end) ==
    IF \E k \in DOMAIN brace_index_pairs : brace_index_pairs[k][1] = token_end
    THEN LET last == CHOOSE k \in DOMAIN brace_index_pairs :
                        /\ brace_index_pairs[k][1] = token_end
                        /\ \A m \in DOMAIN brace_index_pairs :
                              brace_index_pairs[m][1] = token_end => m <= k
         IN brace_index_pairs[last][2]
    ELSE -1

\* The body of the loop for one match; error on "unclear subscript/superscript".
ScriptStep(tex, brace_index_pairs, reg, match_obj) ==
    LET brace_end == BraceEndAt(brace_index_pairs, match_obj.end)
        content_span == IF brace_end # -1 THEN <<match_obj.end, brace_end>>
                        ELSE ContentMatch(tex, match_obj.end)
    IN IF content_span = <<>> THEN [reg |-> reg, error |-> "unclear subscript/superscript"]
       ELSE LET reg1 == add_tex_span(reg, content_span, 0, -1)
                label == Entry(reg1.dict, content_span).label
            IN [reg |-> add_tex_span(reg1, <<match_obj.begin, content_span[2]>>,
                                     match_obj.script_type, label),
                error |-> "none"]

RECURSIVE ScriptLoop(_, _, _, _)
ScriptLoop(tex, brace_index_pairs, reg, matches) ==
    IF matches = <<>> THEN [reg |-> reg, error |-> "none"]
    ELSE LET step == ScriptStep(tex, brace_index_pairs, reg, Head(matches)) IN
         IF step.error # "none" THEN step
         ELSE ScriptLoop(tex, brace_index_pairs, step.reg, Tail(matches))

break_up_by_scripts(tex, brace_index_pairs, reg) ==
    ScriptLoop(tex, brace_index_pairs, reg, ScriptMatches(tex, 0))

\* ------------------------------------------- break_up_by_additional_substrings
\* re.finditer(re.escape(string), tex_string) from position i: the spans of
\* the non-crossing occurrences of a non-empty string.
RECURSIVE FindIter(_, _, _)
FindIter(tex, string, i) ==
    IF i + Len(string) > Len(tex) THEN <<>>
    ELSE IF Slice(tex, i, i + Len(string)) = string
    THEN <<<<i, i + Len(string)>>>> \o FindIter(tex, string, i + Len(string))
    ELSE FindIter(tex, string, i + 1)

RECURSIVE AllSpanTuples(_, _)
AllSpanTuples(tex, additional) ==
    IF additional = <<>> THEN <<>>
    ELSE FindIter(tex, Head(additional), 0) \o AllSpanTuples(tex, Tail(additional))

\* script_spans_dict: end -> start over the script spans, a later entry of
\* tex_spans_dict replacing an earlier one with the same end.
ScriptEntries(dict) == {i \in DOMAIN dict : dict[i].script_type # 0}

script_spans_dict(dict) ==
    [e \in {dict[i].span[2] : i \in ScriptEntries(dict)} |->
        LET last == CHOOSE i \in ScriptEntries(dict) :
                       /\ dict[i].span[2] = e
                       /\ \A j \in ScriptEntries(dict) : dict[j].span[2] = e => j <= i
        IN dict[last].span[1]]

\* script_spans_dict.values()
ScriptStarts(ssd) == {ssd[e] : e \in DOMAIN ssd}

\* while span_end in script_spans_dict: span_end = script_spans_dict[span_end]
RECURSIVE DeconstructEnd(_, _)
DeconstructEnd(ssd, span_end) ==
    IF span_end \in DOMAIN ssd THEN DeconstructEnd(ssd, ssd[span_end]) ELSE span_end

\* A slip: the keys of script_spans_dict (the ends) in place of its values.
EndsAtScriptEnd(ssd, span_end) == span_end \in DOMAIN ssd

\* Whether the occurrence goes through the deconstruction of lines 200-203.
EndsAtScript(ssd, span_end) == span_end \in ScriptStarts(ssd)

\* The span kept for one occurrence, or <<>> when the occurrence is dropped.
IsolatedSpan(ssd, span_begin, span_end) ==
    IF EndsAtScript(ssd, span_end)
    THEN LET new_end == DeconstructEnd(ssd, span_end) IN
         IF span_begin >= new_end THEN <<>> ELSE <<span_begin, new_end>>
    ELSE <<span_begin, span_end>>

RECURSIVE IsolatedSpans(_, _)
IsolatedSpans(ssd, all_span_tuples) ==
    IF all_span_tuples = <<>> THEN <<>>
    ELSE LET kept == IsolatedSpan(ssd, Head(all_span_tuples)[1], Head(all_span_tuples)[2]) IN
         (IF kept = <<>> THEN <<>> ELSE <<kept>>) \o IsolatedSpans(ssd, Tail(all_span_tuples))

break_up_by_additional_substrings(tex, additional, reg, specified) ==
    LET spans == IsolatedSpans(script_spans_dict(reg.dict), AllSpanTuples(tex, additional)) IN
    [reg |-> AddNormalSpans(reg, spans), specified |-> specified \o SubstringsOf(tex, spans)]

\* ------------------------------------------------------------ check_if_overlap
\* sorted(self.tex_spans_dict.keys(), key=lambda t: (t[0], -t[1]))
SortedSpanTuples(dict) ==
    Sorted([k \in DOMAIN dict |->
              [key |-> <<dict[k].span[1], -dict[k].span[2]>>, val |-> dict[k].span]])

\* A slip: the pairs taken in the dict's order, the keys not sorted.
overlapping_span_pairs_unsorted(dict) ==
    {<<dict[p[1]].span, dict[p[2]].span>> :
        p \in {q \in (DOMAIN dict) \X (DOMAIN dict) :
                 /\ q[1] < q[2]
                 /\ ~ (dict[q[1]].span[2] <= dict[q[2]].span[1])
                 /\ dict[q[1]].span[2] < dict[q[2]].span[2]}}

\* overlapping_span_pairs, as a set.
overlapping_span_pairs(dict) ==
    LET span_tuples == SortedSpanTuples(dict) IN
    {<<span_tuples[p[1]], span_tuples[p[2]]>> :
        p \in {q \in (DOMAIN span_tuples) \X (DOMAIN span_tuples) :
                 /\ q[1] < q[2]
                 /\ ~ (span_tuples[q[1]][2] <= span_tuples[q[2]][1])
                 /\ span_tuples[q[1]][2] < span_tuples[q[2]][2]}}

\* --------------------------------------------------- analyse_containing_labels
\* The labels appended to span_1's list: one per Normal span_0, in the
\* dict's order, with _contains(span_1, span_0).
RECURSIVE ContainingLabelsOf(_, _, _)
ContainingLabelsOf(dict, span_1, k) ==
    IF k > Len(dict) THEN <<>>
    ELSE (IF dict[k].script_type = 0 /\ _contains(span_1, dict[k].span)
          THEN <<dict[k].label>> ELSE <<>>)
         \o ContainingLabelsOf(dict, span_1, k + 1)

analyse_containing_labels(dict) ==
    [i \in DOMAIN dict |->
        [dict[i] EXCEPT !.containing_labels = ContainingLabelsOf(dict, dict[i].span, 1)]]

\* ---------------------------------------------------------------- the codec
\* label_to_color_tuple(rgb): two divmods by 256.
label_to_color_tuple(rgb) ==
    LET rg == rgb \div 256
        b == rgb % 256
        r == rg \div 256
        g == rg % 256
    IN <<r, g, b>>

\* ----------------------------------------------------- get_labelled_expression
NormalEntries(dict) == SelectSeq(dict, LAMBDA entry : entry.script_type = 0)

\* The list of (span_tuple[i], i, span_tuple[1 - i], label) over the Normal
\* spans, i = 0 then 1, before it is sorted.
BoundaryEvents(dict) ==
    LET normal == NormalEntries(dict) IN
    [k \in 1 .. 2 * Len(normal) |->
        LET entry == normal[(k + 1) \div 2]
            i == (k + 1) % 2
        IN <<entry.span[i + 1], i, entry.span[2 - i], entry.label>>]

\* A slip: the third part of the key not negated.
indices_with_labels_ascending(dict) ==
    LET events == BoundaryEvents(dict) IN
    Tail(Sorted([k \in DOMAIN events |->
                   [key |-> <<events[k][1], -events[k][2], events[k][3]>>,
                    val |-> events[k]]]))

\* sorted(..., key=lambda t: (t[0], -t[1], -t[2]))[1:]
indices_with_labels(dict) ==
    LET events == BoundaryEvents(dict) IN
    Tail(Sorted([k \in DOMAIN events |->
                   [key |-> <<events[k][1], -events[k][2], -events[k][3]>>,
                    val |-> events[k]]]))

\* The characters of the source and the markers of the expression: a source
\* character c is <<"chr", c>>, "{{\color[RGB]{r,g,b}" is <<"open", r, g, b>>
\* and "}}" is <<"close">>.
Chars(tex) == [k \in DOMAIN tex |-> <<"chr", tex[k]>>]

Marker(index_with_label) ==
    IF index_with_label[2] = 0
    THEN <<<<"open">> \o label_to_color_tuple(index_with_label[4])>>
    ELSE <<<<"close">>>>

RECURSIVE LabelledPieces(_, _, _)
LabelledPieces(tex, pairs, k) ==
    IF k > Len(pairs) THEN <<>>
    ELSE Marker(pairs[k][1])
         \o Chars(Slice(tex, pairs[k][1][1], pairs[k][2][1]))
         \o LabelledPieces(tex, pairs, k + 1)

get_labelled_expression(tex, dict) ==
    IF dict = <<>> THEN Chars(tex)
    ELSE LET events == indices_with_labels(dict) IN
         Chars(Slice(tex, 0, events[1][1]))
         \o LabelledPieces(tex, _get_neighbouring_pairs(events), 1)

\* ------------------------------------------------------------ the decoder
HexDigits == <<"0", "1", "2", "3", "4", "5", "6", "7", "8", "9",
               "a", "b", "c", "d", "e", "f">>

HexValue(c) == (CHOOSE k \in DOMAIN HexDigits : HexDigits[k] = c) - 1

\* int(digits, 16)
RECURSIVE IntBase16(_)
IntBase16(digits) ==
    IF digits = <<>> THEN 0
    ELSE IntBase16(SubSeq(digits, 1, Len(digits) - 1)) * 16 + HexValue(digits[Len(digits)])

\* "#" + "".join([c * 2 for c in color_str[1:]])
DoubledDigits(color_str) ==
    <<"#">> \o [k \in 1 .. 2 * (Len(color_str) - 1) |-> color_str[1 + (k + 1) \div 2]]

\* _LabelledTex.color_str_to_label(color_str)
color_str_to_label(color_str) ==
    LET full == IF Len(color_str) = 4 THEN DoubledDigits(color_str) ELSE color_str
    IN IntBase16(Tail(full)) - 1

\* The fill attribute the Renderer writes for \color[RGB]{r,g,b}: "#rrggbb".
HexColor(color_tuple) ==
    <<"#">> \o [k \in 1 .. 6 |->
                  LET channel == color_tuple[(k + 1) \div 2] IN
                  HexDigits[1 + (IF k % 2 = 1 THEN channel \div 16 ELSE channel % 16)]]

\* The short form "#rgb" of a colour whose channels are doubled digits.
HasShortForm(color_tuple) == \A k \in 1 .. 3 : color_tuple[k] \div 16 = color_tuple[k] % 16

ShortHexColor(color_tuple) ==
    <<"#">> \o [k \in 1 .. 3 |-> HexDigits[1 + (color_tuple[k] % 16)]]

\* ------------------------------------------------------------------ queries
\* A slip: spans that end at span_end left out.
next_begin_choices_short(dict, span_begin, span_end) ==
    LET chosen == SelectSeq([k \in DOMAIN dict |-> dict[k].span],
                            LAMBDA span_tuple :
                               span_tuple[1] = span_begin /\ span_tuple[2] < span_end)
    IN Sorted([k \in DOMAIN chosen |-> [key |-> <<-chosen[k][2]>>, val |-> chosen[k][2]]])

\* next_begin_choices: the ends of the spans that start at span_begin and end
\* at or before span_end, the largest first.
next_begin_choices(dict, span_begin, span_end) ==
    LET chosen == SelectSeq([k \in DOMAIN dict |-> dict[k].span],
                            LAMBDA span_tuple :
                               span_tuple[1] = span_begin /\ span_tuple[2] <= span_end)
    IN Sorted([k \in DOMAIN chosen |-> [key |-> <<-chosen[k][2]>>, val |-> chosen[k][2]]])

\* find_span_components_of_custom_span: [found, result], found FALSE for None.
RECURSIVE find_span_components_of_custom_span(_, _, _, _)
RECURSIVE TryNextBegins(_, _, _, _, _)
find_span_components_of_custom_span(dict, span_begin, span_end, partial_result) ==
    IF span_begin = span_end THEN [found |-> TRUE, result |-> partial_result]
    ELSE TryNextBegins(dict, next_begin_choices(dict, span_begin, span_end),
                       span_begin, span_end, partial_result)

\* The loop of lines 498-504 over the choices that are left.
TryNextBegins(dict, choices, span_begin, span_end, partial_result) ==
    IF choices = <<>> THEN [found |-> FALSE, result |-> <<>>]
    ELSE LET result == find_span_components_of_custom_span(
                           dict, Head(choices), span_end,
                           Append(partial_result, <<span_begin, Head(choices)>>))
         IN IF result.found THEN result
            ELSE TryNextBegins(dict, Tail(choices), span_begin, span_end, partial_result)

\* The labels get_part_by_span_tuples selects the submobjects by.
PartLabels(dict, span_tuples) ==
    UNION {Range(Entry(dict, span_tuples[k]).containing_labels) : k \in DOMAIN span_tuples}

\* remove_list_redundancies keeps the last occurrence of each element.
remove_list_redundancies(l) ==
    LET kept == SelectSeq([k \in DOMAIN l |-> <<k, l[k]>>],
                          LAMBDA kv : \A m \in DOMAIN l : l[m] = kv[2] => m <= kv[1])
    IN [k \in DOMAIN kept |-> kept[k][2]]

\* ------------------------------------------------------------ the parser
\* _TexParser(tex_string, additional_substrings): the registry, or the error
\* that leaves no parser.
_TexParser(tex, additional) ==
    LET braces == get_brace_index_pairs(tex)
        whole == add_tex_span([dict |-> <<>>, current_label |-> 0], <<0, Len(tex)>>, 0, -1)
        doubled == break_up_by_double_braces(tex, braces.pairs, whole, <<>>)
        scripts == break_up_by_scripts(tex, braces.pairs, doubled.reg)
        isolated == break_up_by_additional_substrings(tex, additional, scripts.reg,
                                                      doubled.specified)
    IN IF braces.error # "none" THEN [error |-> braces.error]
       ELSE IF scripts.error # "none" THEN [error |-> scripts.error]
       ELSE IF overlapping_span_pairs(isolated.reg.dict) # {} THEN [error |-> "SystemExit"]
       ELSE [error |-> "none",
             tex_spans_dict |-> analyse_containing_labels(isolated.reg.dict),
             specified_substrings |-> remove_list_redundancies(isolated.specified)]

\* --------------------------------------------------------------- the groups
\* append_new_submobject(glyphs); glyphs are named by their place in the
\* Renderer's output.
append_new_submobject(new_submobjects, glyphs, labels) ==
    IF glyphs = <<>> THEN new_submobjects
    ELSE Append(new_submobjects, [submob_label |-> labels[glyphs[1]], glyphs |-> glyphs])

\* The loop of group_submobjects from the k-th glyph on.
RECURSIVE GroupLoop(_, _, _, _, _)
GroupLoop(labels, k, new_glyphs, current_glyph_label, new_submobjects) ==
    IF k > Len(labels)
    THEN append_new_submobject(new_submobjects, new_glyphs, labels)
    ELSE IF labels[k] = current_glyph_label
         THEN GroupLoop(labels, k + 1, Append(new_glyphs, k), current_glyph_label,
                        new_submobjects)
         ELSE GroupLoop(labels, k + 1, <<k>>, labels[k],
                        append_new_submobject(new_submobjects, new_glyphs, labels))

group_submobjects(labels) == GroupLoop(labels, 1, <<>>, 0, <<>>)

\* index_and_span_list: every script span under each of its two ends, sorted.
index_and_span_list(dict) ==
    LET scripts == SelectSeq(dict, LAMBDA entry : entry.script_type # 0)
    IN Sorted([k \in 1 .. 2 * Len(scripts) |->
                 LET span_tuple == scripts[(k + 1) \div 2].span
                     index == span_tuple[2 - (k % 2)]
                 IN [key |-> <<index, span_tuple[1], span_tuple[2]>>,
                     val |-> [index |-> index, span_tuple |-> span_tuple]]])

\* The neighbours that meet at one index, a subscript and then a superscript.
ScriptPairs(dict) ==
    SelectSeq(_get_neighbouring_pairs(index_and_span_list(dict)),
              LAMBDA pair : /\ pair[1].index = pair[2].index
                            /\ Entry(dict, pair[1].span_tuple).script_type = 1
                            /\ Entry(dict, pair[2].span_tuple).script_type = 2)

\* indices_of_part(get_part_by_span_tuples(span_tuples)), 0-based.
indices_of_part(dict, submobs, span_tuples) ==
    SelectSeq([k \in DOMAIN submobs |-> k - 1],
              LAMBDA i : submobs[i + 1].submob_label \in PartLabels(dict, span_tuples))

\* range_of_part: start and stop; found FALSE where indices_of_part raises.
range_of_part(dict, submobs, span_tuples) ==
    LET indices == indices_of_part(dict, submobs, span_tuples)
    IN IF indices = <<>> THEN [found |-> FALSE, start |-> 0, stop |-> 0]
       ELSE [found |-> TRUE, start |-> indices[1], stop |-> indices[Len(indices)] + 1]

\* switch_range_pairs, sorted by (pair[0].stop, -pair[0].start).
switch_range_pairs(dict, submobs) ==
    LET pairs == ScriptPairs(dict)
    IN Sorted([k \in DOMAIN pairs |->
                 LET submob_range_0 == range_of_part(dict, submobs, <<pairs[k][1].span_tuple>>)
                     submob_range_1 == range_of_part(dict, submobs, <<pairs[k][2].span_tuple>>)
                 IN [key |-> <<submob_range_0.stop, -submob_range_0.start>>,
                     val |-> <<submob_range_0, submob_range_1>>]])

\* A slip: the ranges found and the order left as it is.
SwitchRangesKept(indices, pair) == indices

\* Lines 430-436: the five slices put together again.
SwitchRanges(indices, pair) ==
    Slice(indices, 0, pair[2].start)
    \o Slice(indices, pair[1].start, pair[1].stop)
    \o Slice(indices, pair[2].stop, pair[1].start)
    \o Slice(indices, pair[2].start, pair[2].stop)
    \o Slice(indices, pair[1].stop, Len(indices))

RECURSIVE ApplySwitches(_, _)
ApplySwitches(indices, pairs) ==
    IF pairs = <<>> THEN indices
    ELSE ApplySwitches(SwitchRanges(indices, Head(pairs)), Tail(pairs))

\* sort_scripts_in_tex_order: the submobjects in their new order, or the
\* ValueError of indices_of_part.
sort_scripts_in_tex_order(dict, submobs) ==
    LET pairs == switch_range_pairs(dict, submobs)
        indices == ApplySwitches([k \in DOMAIN submobs |-> k - 1], pairs)
    IN IF \E k \in DOMAIN pairs : ~ pairs[k][1].found \/ ~ pairs[k][2].found
       THEN [error |-> "Failed to find part in tex", submobjects |-> submobs]
       ELSE [error |-> "none",
             submobjects |-> [k \in DOMAIN indices |-> submobs[indices[k] + 1]]]

\* ---------------------------------------------------------------- the cache
\* get_tex_file_body(new_tex) under the CONFIG of MTex: the parts of the file
\* body that new_tex, the environment and the alignment decide.
get_tex_file_body(new_tex) ==
    [alignment |-> "\\centering", tex_environment |-> "align*", new_tex |-> new_tex]

\* hash_val in TEX_HASH_TO_MOB_MAP; hash() taken to be free of collisions.
InMap(map, hash_val) == \E entry \in map : entry.hash_val = hash_val

\* TEX_HASH_TO_MOB_MAP[hash_val]: a reference, the place of the MTex among
\* the mobjects.
MapGet(map, hash_val) == (CHOOSE entry \in map : entry.hash_val = hash_val).mob

\* TEX_HASH_TO_MOB_MAP[hash_val] = self
MapSet(map, hash_val, self) ==
    {entry \in map : entry.hash_val # hash_val} \cup {[hash_val |-> hash_val, mob |-> self]}

\* self.scale(factor), by whom it was asked: the scalings the groups of an
\* MTex have gone through add up.
scale(mob, by) == [mob EXCEPT !.scalings = Append(@, by)]

\* generate_mobject of the MTex self: the map, the groups self is given and
\* the registry their labels were assigned under. A hit gives the groups of
\* a copy of the MTex kept in the map, as they are now; a miss gives groups
\* from the Renderer, labelled under the registry just parsed, and keeps self
\* in the map. With generate_plain_tex_file, line 345 then reads glyph_label
\* of the submobjects of the MTex kept in the map, which group_submobjects
\* has replaced by groups that were given submob_label only: AttributeError
\* with self left in the map, unless the class of the groups, which is not
\* in this file, provides the attribute (groups_have_glyph_label).
generate_mobject(map, mobs, self, tex, dict, generate_plain_tex_file, groups_have_glyph_label) ==
    LET plain_hash_val == get_tex_file_body(Chars(tex))
        hash_val == get_tex_file_body(get_labelled_expression(tex, dict))
    IN IF InMap(map, plain_hash_val)
       THEN [map |-> map, hit |-> TRUE, raised |-> FALSE,
             scalings |-> mobs[MapGet(map, plain_hash_val)].scalings,
             labelled_under |-> mobs[MapGet(map, plain_hash_val)].labelled_under]
       ELSE IF InMap(map, hash_val) /\ ~ generate_plain_tex_file
       THEN [map |-> map, hit |-> TRUE, raised |-> FALSE,
             scalings |-> mobs[MapGet(map, hash_val)].scalings,
             labelled_under |-> mobs[MapGet(map, hash_val)].labelled_under]
       ELSE [map |-> IF generate_plain_tex_file /\ groups_have_glyph_label
                     THEN MapSet(MapSet(map, hash_val, self), plain_hash_val, self)
                     ELSE MapSet(map, hash_val, self),
             hit |-> FALSE,
             raised |-> generate_plain_tex_file /\ ~ groups_have_glyph_label,
             scalings |-> <<>>,
             labelled_under |-> dict]

\* ------------------------------------------------------------------- state
VARIABLES
    tex_string,            \* MTex.tex_string, _TexParser.tex_string
    additional_substrings, \* get_additional_substrings_to_break_up()
    pc,                    \* the step the construction has reached
    outcome,               \* "none", or how the construction ended
    brace_index_pairs,     \* _TexParser.brace_index_pairs
    tex_spans_dict,        \* _TexParser.tex_spans_dict
    current_label,         \* _TexParser.current_label
    specified_substrings,  \* _TexParser.specified_substrings
    labelled_expression,   \* the result of get_labelled_expression
    custom_span_tuple,     \* the range asked of get_part_by_custom_span_tuple
    span_tuples,           \* what find_span_components_of_custom_span returned
    part_labels,           \* the labels of the part returned
    encoded_label,         \* the label handed to label_to_color_tuple
    color_tuple,           \* its colour
    color_str,             \* the fill attribute of the glyph rendered in it
    glyph_label,           \* the label decoded from the fill attribute
    glyph_labels,          \* the labels of the glyphs, in the Renderer's order
    submobjects,           \* self.submobjects once the glyphs are grouped
    TEX_HASH_TO_MOB_MAP,   \* the map from hashes of file bodies to MTex objects
    mobjects               \* the MTex objects constructed so far

query_vars == <<custom_span_tuple, span_tuples, part_labels>>

codec_vars == <<encoded_label, color_tuple, color_str, glyph_label>>

group_vars == <<glyph_labels, submobjects>>

cache_vars == <<TEX_HASH_TO_MOB_MAP, mobjects>>

parser_vars == <<tex_string, additional_substrings, outcome, brace_index_pairs,
                 tex_spans_dict, current_label, specified_substrings>>

vars == <<tex_string, additional_substrings, pc, outcome, brace_index_pairs,
          tex_spans_dict, current_label, specified_substrings,
          labelled_expression, query_vars, codec_vars, group_vars, cache_vars>>

\* What the steps of _TexParser.__init__ leave alone.
mtex_vars == <<labelled_expression, query_vars, codec_vars, group_vars, cache_vars>>

\* ------------------------------------------------------------------ inputs
Strings(chars, n) == UNION {[1 .. k -> chars] : k \in 1 .. n}

\* MTex.__init__ strips the string; an empty one is replaced.
Stripped(tex) == tex # <<>> /\ tex[1] \notin Whitespace /\ tex[Len(tex)] \notin Whitespace

Sources ==
    {tex \in Strings(Alphabet, MaxLen) \cup Strings(BraceAlphabet, MaxBraceLen)
             \cup Strings(ScriptAlphabet, MaxScriptLen) : Stripped(tex)}

NonEmptySubstrings(tex) ==
    {Slice(tex, b, e) : b \in 0 .. Len(tex) - 1, e \in 1 .. Len(tex)} \ {<<>>}

\* get_additional_substrings_to_break_up: no repetition, no empty string.
\* A string that does not occur in the source has no occurrence to isolate.
Requests(tex) ==
    {req \in UNION {[1 .. k -> NonEmptySubstrings(tex)] : k \in 0 .. MaxRequests} :
        \A i, j \in DOMAIN req : i # j => req[i] # req[j]}

\* --------------------------------------------------------- _TexParser.__init__
ParserInit ==
    /\ pc = "braces"
    /\ outcome = "none"
    /\ brace_index_pairs = <<>>
    /\ tex_spans_dict = <<>>
    /\ current_label = 0
    /\ specified_substrings = <<>>

QueryInit ==
    /\ custom_span_tuple = <<>>
    /\ span_tuples = [found |-> FALSE, result |-> <<>>]
    /\ part_labels = {}

CodecInit ==
    /\ encoded_label = 0
    /\ color_tuple = <<>>
    /\ color_str = <<>>
    /\ glyph_label = -1

GroupInit ==
    /\ glyph_labels = <<>>
    /\ submobjects = <<>>

CacheInit ==
    /\ TEX_HASH_TO_MOB_MAP = {}
    /\ mobjects = <<>>

MTexInit ==
    /\ labelled_expression = <<>>
    /\ QueryInit
    /\ CodecInit
    /\ GroupInit
    /\ CacheInit

Fail(message) ==
    /\ pc' = "failed"
    /\ outcome' = message

\* Lines 88-93: the fields, the brace pairs, the span of the whole string.
GetBraceIndexPairs ==
    /\ pc = "braces"
    /\ LET braces == get_brace_index_pairs(tex_string) IN
       IF braces.error # "none"
       THEN /\ Fail(braces.error)
            /\ UNCHANGED <<brace_index_pairs, tex_spans_dict, current_label>>
       ELSE LET reg == add_tex_span([dict |-> <<>>, current_label |-> 0],
                                    <<0, Len(tex_string)>>, 0, -1)
            IN /\ brace_index_pairs' = braces.pairs
               /\ tex_spans_dict' = reg.dict
               /\ current_label' = reg.current_label
               /\ pc' = "double_braces"
               /\ UNCHANGED outcome
    /\ UNCHANGED <<tex_string, additional_substrings, specified_substrings>>
    /\ UNCHANGED mtex_vars

BreakUpByDoubleBraces ==
    /\ pc = "double_braces"
    /\ LET r == break_up_by_double_braces(
                   tex_string, brace_index_pairs,
                   [dict |-> tex_spans_dict, current_label |-> current_label],
                   specified_substrings)
       IN /\ tex_spans_dict' = r.reg.dict
          /\ current_label' = r.reg.current_label
          /\ specified_substrings' = r.specified
    /\ pc' = "scripts"
    /\ UNCHANGED <<tex_string, additional_substrings, outcome, brace_index_pairs>>
    /\ UNCHANGED mtex_vars

BreakUpByScripts ==
    /\ pc = "scripts"
    /\ LET r == break_up_by_scripts(
                   tex_string, brace_index_pairs,
                   [dict |-> tex_spans_dict, current_label |-> current_label])
       IN /\ tex_spans_dict' = r.reg.dict
          /\ current_label' = r.reg.current_label
          /\ IF r.error # "none" THEN Fail(r.error)
             ELSE pc' = "substrings" /\ UNCHANGED outcome
    /\ UNCHANGED <<tex_string, additional_substrings, brace_index_pairs,
                   specified_substrings>>
    /\ UNCHANGED mtex_vars

BreakUpByAdditionalSubstrings ==
    /\ pc = "substrings"
    /\ LET r == break_up_by_additional_substrings(
                   tex_string, additional_substrings,
                   [dict |-> tex_spans_dict, current_label |-> current_label],
                   specified_substrings)
       IN /\ tex_spans_dict' = r.reg.dict
          /\ current_label' = r.reg.current_label
          /\ specified_substrings' = r.specified
    /\ pc' = "overlap"
    /\ UNCHANGED <<tex_string, additional_substrings, outcome, brace_index_pairs>>
    /\ UNCHANGED mtex_vars

\* sys.exit(2) when a pair overlaps.
CheckIfOverlap ==
    /\ pc = "overlap"
    /\ IF overlapping_span_pairs(tex_spans_dict) # {}
       THEN Fail("SystemExit")
       ELSE pc' = "containing" /\ UNCHANGED outcome
    /\ UNCHANGED <<tex_string, additional_substrings, brace_index_pairs,
                   tex_spans_dict, current_label, specified_substrings>>
    /\ UNCHANGED mtex_vars

\* Lines 98-99.
AnalyseContainingLabels ==
    /\ pc = "containing"
    /\ tex_spans_dict' = analyse_containing_labels(tex_spans_dict)
    /\ specified_substrings' = remove_list_redundancies(specified_substrings)
    /\ pc' = "parsed"
    /\ UNCHANGED <<tex_string, additional_substrings, outcome, brace_index_pairs,
                   current_label>>
    /\ UNCHANGED mtex_vars

\* generate_mobject, line 325.
GetLabelledExpression ==
    /\ pc = "parsed"
    /\ labelled_expression' = get_labelled_expression(tex_string, tex_spans_dict)
    /\ pc' = "labelled"
    /\ UNCHANGED <<parser_vars, query_vars, codec_vars, group_vars, cache_vars>>

\* get_part_by_custom_span_tuple(custom_span_tuple) on the constructed MTex.
GetPartByCustomSpanTuple ==
    /\ pc = "parsed"
    /\ \E span_begin, span_end \in 0 .. Len(tex_string) :
          LET found == find_span_components_of_custom_span(
                           tex_spans_dict, span_begin, span_end, <<>>)
          IN /\ custom_span_tuple' = <<span_begin, span_end>>
             /\ span_tuples' = found
             /\ IF ~ found.found
                THEN /\ outcome' = "Failed to get span of tex"
                     /\ part_labels' = {}
                ELSE /\ outcome' = "part"
                     /\ part_labels' = PartLabels(tex_spans_dict, found.result)
    /\ pc' = "queried"
    /\ UNCHANGED <<tex_string, additional_substrings, brace_index_pairs,
                   tex_spans_dict, current_label, specified_substrings>>
    /\ UNCHANGED <<labelled_expression, codec_vars, group_vars, cache_vars>>

Init ==
    /\ tex_string \in Sources
    /\ additional_substrings \in Requests(tex_string)
    /\ ParserInit
    /\ MTexInit

Next ==
    \/ GetBraceIndexPairs
    \/ BreakUpByDoubleBraces
    \/ BreakUpByScripts
    \/ BreakUpByAdditionalSubstrings
    \/ CheckIfOverlap
    \/ AnalyseContainingLabels
    \/ GetLabelledExpression

Spec == Init /\ [][Next]_vars

\* ------------------------------------------------------- the queries' runs
QuerySources == {tex \in Strings(ScriptAlphabet, MaxQueryLen) : Stripped(tex)}

InitQuery ==
    /\ tex_string \in QuerySources
    /\ additional_substrings \in Requests(tex_string)
    /\ ParserInit
    /\ MTexInit

NextQuery ==
    \/ GetBraceIndexPairs
    \/ BreakUpByDoubleBraces
    \/ BreakUpByScripts
    \/ BreakUpByAdditionalSubstrings
    \/ CheckIfOverlap
    \/ AnalyseContainingLabels
    \/ GetPartByCustomSpanTuple

SpecQuery == InitQuery /\ [][NextQuery]_vars

\* -------------------------------------------------------- the codec's runs
\* The labels get_labelled_expression may encode: label + 1 below 2^24.
CodecLabels ==
    {n \in {(r * 256 + g) * 256 + b : r, g, b \in ChannelSamples} : n + 1 < 16777216}

\* get_labelled_expression, line 259.
EncodeLabel ==
    /\ pc = "encode"
    /\ color_tuple' = label_to_color_tuple(encoded_label)
    /\ pc' = "render"
    /\ UNCHANGED <<parser_vars, labelled_expression, query_vars, group_vars,
                   cache_vars, encoded_label, color_str,
                   glyph_label>>

\* The Renderer: the glyph's fill attribute, in six hex digits.
RenderColor ==
    /\ pc = "render"
    /\ color_str' = HexColor(color_tuple)
    /\ pc' = "decode"
    /\ UNCHANGED <<parser_vars, labelled_expression, query_vars, group_vars,
                   cache_vars, encoded_label, color_tuple,
                   glyph_label>>

\* The Renderer: the fill attribute in three hex digits, where there is one.
RenderShortColor ==
    /\ pc = "render"
    /\ HasShortForm(color_tuple)
    /\ color_str' = ShortHexColor(color_tuple)
    /\ pc' = "decode"
    /\ UNCHANGED <<parser_vars, labelled_expression, query_vars, group_vars,
                   cache_vars, encoded_label, color_tuple,
                   glyph_label>>

\* _LabelledTex.__init__, line 45.
DecodeLabel ==
    /\ pc = "decode"
    /\ glyph_label' = color_str_to_label(color_str)
    /\ pc' = "decoded"
    /\ UNCHANGED <<parser_vars, labelled_expression, query_vars, group_vars,
                   cache_vars, encoded_label, color_tuple,
                   color_str>>

InitCodec ==
    /\ tex_string = <<>>
    /\ additional_substrings = <<>>
    /\ outcome = "none"
    /\ brace_index_pairs = <<>>
    /\ tex_spans_dict = <<>>
    /\ current_label = 0
    /\ specified_substrings = <<>>
    /\ labelled_expression = <<>>
    /\ QueryInit
    /\ GroupInit
    /\ CacheInit
    /\ pc = "encode"
    /\ encoded_label \in CodecLabels
    /\ color_tuple = <<>>
    /\ color_str = <<>>
    /\ glyph_label = -1

NextCodec ==
    \/ EncodeLabel
    \/ RenderColor
    \/ RenderShortColor
    \/ DecodeLabel

SpecCodec == InitCodec /\ [][NextCodec]_vars

\* ------------------------------------------------------- the scripts' runs
\* "x" with at most n scripts, each a script character and a letter.
RECURSIVE WithScripts(_)
WithScripts(n) ==
    IF n = 0 THEN {<<"x">>}
    ELSE LET shorter == WithScripts(n - 1)
         IN shorter \cup {tex \o <<script_char, letter>> :
                            tex \in shorter, script_char \in ScriptChars,
                            letter \in {"a", "b"}}

\* The glyphs the Renderer may give: at most MaxGlyphs, each decoded to -1
\* or to a label of the registry.
GlyphSequences(labels) == UNION {[1 .. n -> labels] : n \in 0 .. MaxGlyphs}

\* generate_mobject, lines 332-335: the Renderer's glyphs, decoded.
RenderGlyphs ==
    /\ pc = "labelled"
    /\ glyph_labels' \in GlyphSequences(-1 .. current_label - 1)
    /\ pc' = "rendered"
    /\ UNCHANGED <<parser_vars, labelled_expression, query_vars, codec_vars, submobjects,
                   cache_vars>>

\* build_submobjects, lines 369-371.
GroupSubmobjects ==
    /\ pc = "rendered"
    /\ IF glyph_labels = <<>>
       THEN pc' = "built" /\ UNCHANGED submobjects
       ELSE pc' = "grouped" /\ submobjects' = group_submobjects(glyph_labels)
    /\ UNCHANGED <<parser_vars, labelled_expression, query_vars, codec_vars, glyph_labels,
                   cache_vars>>

\* build_submobjects, line 372.
SortScriptsInTexOrder ==
    /\ pc = "grouped"
    /\ LET sorted == sort_scripts_in_tex_order(tex_spans_dict, submobjects)
       IN IF sorted.error # "none"
          THEN /\ Fail(sorted.error)
               /\ UNCHANGED submobjects
          ELSE /\ submobjects' = sorted.submobjects
               /\ pc' = "sorted"
               /\ UNCHANGED outcome
    /\ UNCHANGED <<tex_string, additional_substrings, brace_index_pairs, tex_spans_dict,
                   current_label, specified_substrings>>
    /\ UNCHANGED <<labelled_expression, query_vars, codec_vars, glyph_labels, cache_vars>>

InitScripts ==
    /\ tex_string \in WithScripts(MaxScripts)
    /\ additional_substrings = <<>>
    /\ ParserInit
    /\ MTexInit

NextScripts ==
    \/ GetBraceIndexPairs
    \/ BreakUpByDoubleBraces
    \/ BreakUpByScripts
    \/ BreakUpByAdditionalSubstrings
    \/ CheckIfOverlap
    \/ AnalyseContainingLabels
    \/ GetLabelledExpression
    \/ RenderGlyphs
    \/ GroupSubmobjects
    \/ SortScriptsInTexOrder

SpecScripts == InitScripts /\ [][NextScripts]_vars

\* --------------------------------------------------------- the cache's runs
\* The sources of the runs that construct one MTex after another: those
\* with scripts, and one of two letters and no script.
CacheSources == WithScripts(MaxCacheScripts) \cup {<<"x", "a">>}

\* MTex(tex_string, isolate = additional, generate_plain_tex_file = ...):
\* the whole of __init__, for a tex_string the parser accepts. Of the state
\* of the groups the scalings are kept (line 300); init_colors and
\* set_color_by_tex_to_color_map (lines 298-299) change their colours only.
\* When generate_mobject raises, the MTex is not constructed, but stays in
\* the map as generate_mobject left it.
ConstructMTex ==
    /\ pc = "cache"
    /\ Len(mobjects) < MaxMobjects
    /\ \E tex \in CacheSources, generate_plain_tex_file, groups_have_glyph_label \in BOOLEAN :
         \E additional \in Requests(tex) :
            LET tex_parser == _TexParser(tex, additional)
                self == Len(mobjects) + 1
            IN /\ tex_parser.error = "none"
               /\ LET generated == generate_mobject(TEX_HASH_TO_MOB_MAP, mobjects, self, tex,
                                                    tex_parser.tex_spans_dict,
                                                    generate_plain_tex_file,
                                                    groups_have_glyph_label)
                      mob == [tex_string |-> tex,
                              isolate |-> additional,
                              generate_plain_tex_file |-> generate_plain_tex_file,
                              tex_spans_dict |-> tex_parser.tex_spans_dict,
                              hit |-> generated.hit,
                              constructed |-> ~ generated.raised,
                              labelled_under |-> generated.labelled_under,
                              scalings |-> generated.scalings]
                  IN /\ TEX_HASH_TO_MOB_MAP' = generated.map
                     /\ mobjects' = Append(mobjects, IF generated.raised THEN mob
                                                     ELSE scale(mob, self))
    /\ UNCHANGED <<parser_vars, pc, labelled_expression, query_vars, codec_vars, group_vars>>

\* mob.scale(factor), asked by the owner of an MTex constructed before.
ScaleMTex ==
    /\ pc = "cache"
    /\ \E mob \in DOMAIN mobjects :
          /\ mobjects[mob].constructed
          /\ Len(mobjects[mob].scalings) < MaxScalings
          /\ mobjects' = [mobjects EXCEPT ![mob] = scale(@, mob)]
    /\ UNCHANGED <<parser_vars, pc, labelled_expression, query_vars, codec_vars, group_vars,
                   TEX_HASH_TO_MOB_MAP>>

InitCache ==
    /\ tex_string = <<>>
    /\ additional_substrings = <<>>
    /\ outcome = "none"
    /\ brace_index_pairs = <<>>
    /\ tex_spans_dict = <<>>
    /\ current_label = 0
    /\ specified_substrings = <<>>
    /\ pc = "cache"
    /\ MTexInit

NextCache ==
    \/ ConstructMTex
    \/ ScaleMTex

SpecCache == InitCache /\ [][NextCache]_vars

\* ------------------------------------------------------------------ claims
\* check_if_overlap has been passed.
PastOverlapCheck == pc \notin {"braces", "double_braces", "scripts", "substrings",
                               "overlap", "failed"}

PartialOverlap(a, b) == a[1] < b[1] /\ b[1] < a[2] /\ a[2] < b[2]

Laminar(spans) == \A a, b \in spans : ~ PartialOverlap(a, b)

\* C1 (laminarity): once check_if_overlap has been passed, no two spans of
\* tex_spans_dict overlap partially; and check_if_overlap takes its error exit
\* (sys.exit) exactly on the registries that hold a partially overlapping
\* pair.
C1_Laminarity ==
    /\ PastOverlapCheck => Laminar(Keys(tex_spans_dict))
    /\ outcome = "SystemExit" => ~ Laminar(Keys(tex_spans_dict))

\* A construction with a requested substring that ended without error, its
\* registry holding a nested pair and a disjoint pair.
C1_Witness ==
    /\ pc = "parsed"
    /\ additional_substrings # <<>>
    /\ \E a, b \in Keys(tex_spans_dict) : a # b /\ _contains(a, b)
    /\ \E a, b \in Keys(tex_spans_dict) : a[2] <= b[1] /\ a[1] < a[2] /\ b[1] < b[2]

\* The labels of the Normal spans a span contains (itself included).
LabelsWithin(dict, span_tuple) ==
    {dict[i].label : i \in {j \in DOMAIN dict :
        dict[j].script_type = 0 /\ span_tuple[1] <= dict[j].span[1]
                                /\ dict[j].span[2] <= span_tuple[2]}}

\* The labels of the spans that properly contain a span.
LabelsAround(dict, span_tuple) ==
    {dict[i].label : i \in {j \in DOMAIN dict :
        /\ dict[j].span # span_tuple
        /\ dict[j].span[1] <= span_tuple[1]
        /\ span_tuple[2] <= dict[j].span[2]}}

NoRepetition(seq) == \A i, j \in DOMAIN seq : i # j => seq[i] # seq[j]

\* C6 as stated (containment closure): after analyse_containing_labels the
\* containing_labels of every span are exactly the labels of the spans that
\* properly contain it.
C6_ContainingLabelsAreEnclosing ==
    pc = "parsed" =>
        \A i \in DOMAIN tex_spans_dict :
            Range(tex_spans_dict[i].containing_labels)
                = LabelsAround(tex_spans_dict, tex_spans_dict[i].span)

\* C6 as amended: after analyse_containing_labels the containing_labels of
\* every span S are exactly the labels of the Normal spans that lie within S
\* (S itself when it is Normal), none listed twice.
C6_ContainingLabelsAreEnclosed ==
    pc = "parsed" =>
        \A i \in DOMAIN tex_spans_dict :
            /\ Range(tex_spans_dict[i].containing_labels)
                  = LabelsWithin(tex_spans_dict, tex_spans_dict[i].span)
            /\ NoRepetition(tex_spans_dict[i].containing_labels)

\* A parsed registry with a span that holds two Normal spans besides itself
\* and a Normal span that lies in two others.
C6_Witness ==
    /\ pc = "parsed"
    /\ \E i \in DOMAIN tex_spans_dict : Len(tex_spans_dict[i].containing_labels) >= 3
    /\ \E i \in DOMAIN tex_spans_dict :
          /\ tex_spans_dict[i].script_type = 0
          /\ tex_spans_dict[i].containing_labels = <<tex_spans_dict[i].label>>
          /\ Cardinality({j \in DOMAIN tex_spans_dict :
                 tex_spans_dict[i].label \in Range(tex_spans_dict[j].containing_labels)}) >= 3

NormalIndices(dict) == {i \in DOMAIN dict : dict[i].script_type = 0}

\* C7 (label uniqueness and monotonicity): at every point of the parsing the
\* ranges are unique keys, the labels of the Normal spans are pairwise distinct
\* and are exactly 0..N-1 for the N Normal spans, the next label is N, the span
\* of the whole string has label 0, a Normal span added later has a larger
\* label, and every script span has the label of the Normal span of its
\* content (the span from the end of its token to its own end).
C7_Labels ==
    LET dict == tex_spans_dict
        normal == NormalIndices(dict)
    IN /\ \A i, j \in DOMAIN dict : i # j => dict[i].span # dict[j].span
       /\ \A i, j \in normal : i < j => dict[i].label < dict[j].label
       /\ {dict[i].label : i \in normal} = 0 .. (Cardinality(normal) - 1)
       /\ current_label = Cardinality(normal)
       /\ dict # <<>> => /\ dict[1].span = <<0, Len(tex_string)>>
                         /\ dict[1].script_type = 0
                         /\ dict[1].label = 0
       /\ \A i \in DOMAIN dict \ normal :
             \E j \in normal, k \in DOMAIN ScriptMatches(tex_string, 0) :
                LET match_obj == ScriptMatches(tex_string, 0)[k] IN
                /\ match_obj.begin = dict[i].span[1]
                /\ match_obj.script_type = dict[i].script_type
                /\ dict[j].span = <<match_obj.end, dict[i].span[2]>>
                /\ dict[j].label = dict[i].label

\* A parsed registry with a script span, three Normal spans, and a request
\* for a range that was already a key (the add was a no-op).
C7_Witness ==
    /\ pc = "parsed"
    /\ Cardinality(NormalIndices(tex_spans_dict)) >= 3
    /\ \E i \in DOMAIN tex_spans_dict : tex_spans_dict[i].script_type # 0
    /\ \E k \in DOMAIN additional_substrings :
          \E i \in DOMAIN tex_spans_dict :
             /\ tex_spans_dict[i].script_type # 0
             /\ Slice(tex_string, tex_spans_dict[i].span[1], tex_spans_dict[i].span[2])
                   = additional_substrings[k]

\* An unescaped brace: one after an even number of backslashes.
UnescapedBrace(tex, i, brace) ==
    At(tex, i) = brace /\ BackslashesBefore(tex, i) % 2 = 0

\* Whether the unescaped braces of tex[i:stop] are balanced, depth being the
\* number of braces open so far.
RECURSIVE BalancedFrom(_, _, _, _)
BalancedFrom(tex, i, stop, depth) ==
    IF i >= stop THEN depth = 0
    ELSE IF UnescapedBrace(tex, i, LBrace) THEN BalancedFrom(tex, i + 1, stop, depth + 1)
    ELSE IF UnescapedBrace(tex, i, RBrace)
    THEN depth > 0 /\ BalancedFrom(tex, i + 1, stop, depth - 1)
    ELSE BalancedFrom(tex, i + 1, stop, depth)

Balanced(tex) == BalancedFrom(tex, 0, Len(tex), 0)

\* C8 (brace matching outcome): get_brace_index_pairs returns the pairs of
\* matched unescaped braces when the unescaped braces of the source are
\* balanced, and ends in the parse error "unmatched braces", and in no other
\* outcome, when they are not.
C8_BraceOutcome ==
    pc # "braces" =>
        IF Balanced(tex_string)
        THEN /\ outcome \notin {"unmatched braces", "IndexError"}
             /\ Len(brace_index_pairs)
                   = Cardinality({i \in 0 .. Len(tex_string) - 1 :
                                     UnescapedBrace(tex_string, i, LBrace)})
             /\ \A k \in DOMAIN brace_index_pairs :
                   LET pair == brace_index_pairs[k] IN
                   /\ UnescapedBrace(tex_string, pair[1], LBrace)
                   /\ UnescapedBrace(tex_string, pair[2] - 1, RBrace)
                   /\ BalancedFrom(tex_string, pair[1] + 1, pair[2] - 1, 0)
        ELSE outcome = "unmatched braces"

IsScriptEnd(dict, e) == \E i \in ScriptEntries(dict) : dict[i].span[2] = e

IsScriptStart(dict, e) == \E i \in ScriptEntries(dict) : dict[i].span[1] = e

\* e, replaced by the start of the script span that ends at e until no script
\* span ends there.
RECURSIVE NarrowedEnd(_, _)
NarrowedEnd(dict, e) ==
    IF IsScriptEnd(dict, e)
    THEN NarrowedEnd(dict, dict[CHOOSE i \in ScriptEntries(dict) :
                                   /\ dict[i].span[2] = e
                                   /\ \A j \in ScriptEntries(dict) :
                                         dict[j].span[2] = e => j <= i].span[1])
    ELSE e

\* What is kept of an occurrence: the narrowed range when Triggered holds of
\* its end (<<>> when that range is empty), the occurrence itself otherwise.
NarrowedSpan(dict, occurrence, Triggered(_, _)) ==
    IF Triggered(dict, occurrence[2])
    THEN IF occurrence[1] >= NarrowedEnd(dict, occurrence[2]) THEN <<>>
         ELSE <<occurrence[1], NarrowedEnd(dict, occurrence[2])>>
    ELSE occurrence

\* The step of break_up_by_additional_substrings: the kept ranges become keys
\* (Normal spans when they are new), nothing else is added, the entries there
\* before stay as they were, and the texts of the kept ranges are recorded in
\* the order of the occurrences.
IsolationStep(Triggered(_, _)) ==
    LET occurrences == AllSpanTuples(tex_string, additional_substrings)
        narrowed == [k \in DOMAIN occurrences |->
                        NarrowedSpan(tex_spans_dict, occurrences[k], Triggered)]
        kept == SelectSeq(narrowed, LAMBDA span_tuple : span_tuple # <<>>)
    IN /\ specified_substrings' = specified_substrings \o SubstringsOf(tex_string, kept)
       /\ Keys(tex_spans_dict') = Keys(tex_spans_dict) \cup Range(kept)
       /\ SubSeq(tex_spans_dict', 1, Len(tex_spans_dict)) = tex_spans_dict
       /\ \A i \in (Len(tex_spans_dict) + 1) .. Len(tex_spans_dict') :
             tex_spans_dict'[i].script_type = 0

\* C9 as stated (isolation at a script boundary): an occurrence of a requested
\* substring is narrowed when its end is the end of a script span, and is
\* added unchanged otherwise.
C9_NarrowedAtScriptEnd ==
    [][pc = "substrings" /\ pc' # "substrings" => IsolationStep(IsScriptEnd)]_vars

\* C9 as amended: an occurrence is narrowed (its end replaced by the start of
\* the script span that ends there, repeatedly; dropped when nothing is left)
\* when its end is the START of a script span, and is added unchanged
\* otherwise.
C9_NarrowedAtScriptStart ==
    [][pc = "substrings" /\ pc' # "substrings" => IsolationStep(IsScriptStart)]_vars

\* break_up_by_additional_substrings has run on an occurrence that ends where
\* one script span ends and the next starts, and kept a shorter, non-empty
\* range of it.
C9_Witness ==
    /\ pc = "overlap"
    /\ \E k \in DOMAIN AllSpanTuples(tex_string, additional_substrings) :
          LET occurrence == AllSpanTuples(tex_string, additional_substrings)[k]
              narrowed == NarrowedEnd(tex_spans_dict, occurrence[2])
          IN /\ IsScriptStart(tex_spans_dict, occurrence[2])
             /\ occurrence[1] < narrowed
             /\ narrowed < occurrence[2]
             /\ <<occurrence[1], narrowed>> \in Keys(tex_spans_dict)
             /\ occurrence \notin Keys(tex_spans_dict)

\* The label a colour of the annotated expression stands for.
ColorLabel(token) == (token[2] * 256 + token[3]) * 256 + token[4]

SpanOfLabel(dict, label) ==
    dict[CHOOSE i \in NormalIndices(dict) : dict[i].label = label].span

\* The markers of expr[k..] nest over the source positions: an open marker
\* stands at the start of its span, a close marker at the end of the span
\* opened last and not yet closed, and nothing stays open.
RECURSIVE MarkersNest(_, _, _, _, _)
MarkersNest(dict, expr, k, pos, open) ==
    IF k > Len(expr) THEN open = <<>>
    ELSE IF expr[k][1] = "chr" THEN MarkersNest(dict, expr, k + 1, pos + 1, open)
    ELSE IF expr[k][1] = "open"
    THEN /\ \E i \in NormalIndices(dict) : dict[i].label = ColorLabel(expr[k])
         /\ SpanOfLabel(dict, ColorLabel(expr[k]))[1] = pos
         /\ MarkersNest(dict, expr, k + 1, pos,
                        Append(open, SpanOfLabel(dict, ColorLabel(expr[k]))))
    ELSE /\ open # <<>>
         /\ open[Len(open)][2] = pos
         /\ MarkersNest(dict, expr, k + 1, pos, SubSeq(open, 1, Len(open) - 1))

\* C10 (nesting of the annotated expression): get_labelled_expression puts
\* exactly one open marker, of its own colour, and one close marker for every
\* Normal span but the span of the whole string, none for that one; the
\* markers nest properly over the source positions; and the expression
\* without its markers is the source.
C10_LabelledExpressionNests ==
    pc = "labelled" =>
        LET expr == labelled_expression
            opens == SelectSeq(expr, LAMBDA token : token[1] = "open")
            closes == SelectSeq(expr, LAMBDA token : token[1] = "close")
            chars == SelectSeq(expr, LAMBDA token : token[1] = "chr")
            normal == NormalIndices(tex_spans_dict)
        IN /\ \A i \in normal :
                 Cardinality({k \in DOMAIN opens :
                     ColorLabel(opens[k]) = tex_spans_dict[i].label})
                   = IF tex_spans_dict[i].span = <<0, Len(tex_string)>> THEN 0 ELSE 1
           /\ Len(opens) = Cardinality(normal) - 1
           /\ Len(closes) = Cardinality(normal) - 1
           /\ MarkersNest(tex_spans_dict, expr, 1, 0, <<>>)
           /\ [k \in DOMAIN chars |-> chars[k][2]] = tex_string

\* An annotated expression in which two spans that are not the whole string
\* end at one position, the inner one opened inside the outer one.
C10_Witness ==
    /\ pc = "labelled"
    /\ \E i, j \in NormalIndices(tex_spans_dict) :
          /\ tex_spans_dict[i].span[2] = tex_spans_dict[j].span[2]
          /\ tex_spans_dict[i].span[1] < tex_spans_dict[j].span[1]
          /\ tex_spans_dict[i].span # <<0, Len(tex_string)>>

\* The ends the tilings of [p0, span_end) by keys reach, going through the
\* positions p, p + 1, ... in turn.
RECURSIVE TilingEnds(_, _, _, _)
TilingEnds(keys, p, span_end, reached) ==
    IF p > span_end THEN reached
    ELSE TilingEnds(keys, p + 1, span_end,
                    IF p \in reached
                    THEN reached \cup {key[2] : key \in {k \in keys : k[1] = p /\ k[2] <= span_end}}
                    ELSE reached)

\* Some sequence of registry spans tiles [span_begin, span_end) exactly.
Tileable(keys, span_begin, span_end) ==
    /\ span_begin <= span_end
    /\ span_end \in TilingEnds(keys, span_begin, span_end, {span_begin})

\* C2 (range query by tiling): find_span_components_of_custom_span returns a
\* list exactly when registry spans tile the requested range; the list is
\* then a chain of keys from the begin of the range to its end; and
\* get_part_by_custom_span_tuple fails with "Failed to get span of tex", no
\* part returned, when there is no tiling.
C2_QueryByTiling ==
    pc = "queried" =>
        LET span_begin == custom_span_tuple[1]
            span_end == custom_span_tuple[2]
            result == span_tuples.result
        IN /\ span_tuples.found <=> Tileable(Keys(tex_spans_dict), span_begin, span_end)
           /\ span_tuples.found =>
                 /\ outcome = "part"
                 /\ \A k \in DOMAIN result : result[k] \in Keys(tex_spans_dict)
                 /\ result = <<>> => span_begin = span_end
                 /\ result # <<>> => /\ result[1][1] = span_begin
                                     /\ result[Len(result)][2] = span_end
                 /\ \A k \in 1 .. Len(result) - 1 : result[k + 1][1] = result[k][2]
           /\ ~ span_tuples.found =>
                 /\ outcome = "Failed to get span of tex"
                 /\ part_labels = {}

\* A query answered by a tiling of three spans, none of them the range asked.
C2_Witness ==
    /\ pc = "queried"
    /\ span_tuples.found
    /\ Len(span_tuples.result) >= 3
    /\ custom_span_tuple \notin Keys(tex_spans_dict)

\* C3 (colour round trip): the label decoded from the colour that
\* label_to_color_tuple gives a label is that label.
C3_RoundTrip == pc = "decoded" => glyph_label = encoded_label

\* The source x_a^b.
SubThenSup == <<"x", "_", "a", "^", "b">>

\* The places in seq of the elements with the label.
PlacesOf(seq, wanted) == {k \in DOMAIN seq : seq[k] = wanted}

\* The elements labelled first form one run, before the one run of those
\* labelled second.
RunBefore(seq, first, second) ==
    /\ PlacesOf(seq, first) # {}
    /\ PlacesOf(seq, second) # {}
    /\ \A k \in PlacesOf(seq, first), m \in PlacesOf(seq, second) : k < m
    /\ \A l \in {first, second} : \A k, m \in PlacesOf(seq, l) :
          \A n \in k .. m : seq[n] = l

SubmobLabels == [k \in DOMAIN submobjects |-> submobjects[k].submob_label]

\* The labels of the content of _a and of the content of ^b in x_a^b.
LabelOfSub == Entry(tex_spans_dict, <<2, 3>>).label

LabelOfSup == Entry(tex_spans_dict, <<4, 5>>).label

\* The case of C5: x_a^b built, the superscript's glyphs given first.
SupRenderedFirst ==
    /\ pc = "sorted"
    /\ tex_string = SubThenSup
    /\ RunBefore(glyph_labels, LabelOfSup, LabelOfSub)

C4_CopyIsolation ==
    \A mob \in DOMAIN mobjects :
       \A k \in DOMAIN mobjects[mob].scalings : mobjects[mob].scalings[k] = mob

\* The groups as group_submobjects left them, before the sort.
InitialGroups == group_submobjects(glyph_labels)

\* How often a group is found in a sequence of groups.
TimesIn(groups, group) == Cardinality({k \in DOMAIN groups : groups[k] = group})

\* C11 (script reordering is a permutation): once sort_scripts_in_tex_order
\* is done the submobjects are the initial groups, each exactly once: as many
\* as before, none lost, none twice.
C11_Permutation ==
    pc = "sorted" =>
        /\ Len(submobjects) = Len(InitialGroups)
        /\ \A k \in DOMAIN InitialGroups : TimesIn(submobjects, InitialGroups[k]) = 1

\* C12 (cache key consistency): the groups an MTex took from
\* TEX_HASH_TO_MOB_MAP were labelled under a registry identical to the one
\* parsed for that MTex.
C12_HitUnderSameRegistry ==
    \A mob \in DOMAIN mobjects :
       mobjects[mob].hit => mobjects[mob].labelled_under = mobjects[mob].tex_spans_dict

====
